---- MODULE Spec2Model ----
(***************************************************************************)
(* Report lifecycle of the hazard-reporting backend.                       *)
(*                                                                         *)
(* Two sets of HTTP handlers act on the same Report collection:            *)
(*   - the controller handlers (getReports .. verifyReport), mounted by    *)
(*     routes/reports.js behind protect / authorize;                       *)
(*   - the handlers that server.js registers directly on the app           *)
(*     (POST/GET /api/reports, GET /api/reports/:id,                       *)
(*     PUT /api/admin/reports/:id/verify), which run without middleware.   *)
(* Each handler is one action.  Strings with a length limit are modelled   *)
(* by their length; dates by a logical clock that ticks on every mutating  *)
(* request.  Report fields that no handler branches on (type, image,       *)
(* locationDetails, adminComments) are left out of the document.           *)
(* The register handlers (controllers/auth.js and server.js) are two steps *)
(* each, the existence check and the creation, so that requests of         *)
(* different clients interleave; login is one step.                        *)
(* A handler's reads and its write are taken as one atomic step; page and  *)
(* limit parameters are non-negative.                                      *)
(***************************************************************************)
EXTENDS Integers, Sequences, FiniteSets, TLC

VARIABLES reports, nextId, now, req, resp, users, pending

vars == <<reports, nextId, now, req, resp, users, pending>>

(* the User collection and the register requests that are between their    *)
(* existence check and their User.create                                   *)
authVars == <<users, pending>>

(* ---------------------------- bounds ----------------------------------- *)
MaxReports == 2
MaxTime == 2
MaxPageReports == 16

(* ------------------------- program constants --------------------------- *)
TitleMaxLen == 100
DescriptionMaxLen == 500
DefaultPage == 1
DefaultLimit == 10
DefaultUserId == "655e1234abcd1234abcd1234"

StatusEnum == {"pending", "verified", "in-progress", "resolved", "rejected"}
VerificationStatusEnum == {"pending", "approved", "rejected"}

(* --------------------------- principals -------------------------------- *)
UserIds == {"u1", "u2", "a1"}
RoleOf(u) == IF u = "a1" THEN "admin" ELSE "user"
Anon == [id |-> "", role |-> "none"]
Requesters == {[id |-> u, role |-> RoleOf(u)] : u \in UserIds} \cup {Anon}

(* the empty request body / query, and optional parameters                 *)
Empty == <<>>
Has(b, f) == f \in DOMAIN b
Opt(f, S) == {Empty} \cup {f :> v : v \in S}

(* ----------------------- models/Report.js ------------------------------ *)
(* the validators without the maxlength rules                              *)
ValidPath_NoMaxLength(f, v) ==
    CASE f = "title"              -> v > 0
      [] f = "description"        -> v > 0
      [] f = "location"           -> v > 0
      [] f = "status"             -> v \in StatusEnum
      [] f = "verificationStatus" -> v \in VerificationStatusEnum
      [] f = "userId"             -> v # ""
      [] OTHER                    -> TRUE

(* schema validators: required / maxlength / enum, per path               *)
ValidPath(f, v) ==
    CASE f = "title"              -> v > 0 /\ v <= TitleMaxLen
      [] f = "description"        -> v > 0 /\ v <= DescriptionMaxLen
      [] f = "location"           -> v > 0
      [] f = "status"             -> v \in StatusEnum
      [] f = "verificationStatus" -> v \in VerificationStatusEnum
      [] f = "userId"             -> v # ""
      [] OTHER                    -> TRUE

(* schema defaults applied to the data a document is constructed from     *)
SchemaDefaults(t) ==
    [title |-> 0, description |-> 0, location |-> 0,
     status |-> "pending", verificationStatus |-> "pending",
     verificationHistory |-> <<>>, verifiedBy |-> "", verifiedAt |-> 0,
     userId |-> "", createdAt |-> t, updatedAt |-> t]

NewDocument(data, t) ==
    [f \in DOMAIN SchemaDefaults(t) |->
        IF Has(data, f) THEN data[f] ELSE SchemaDefaults(t)[f]]

ValidDocument(d) == \A f \in DOMAIN d : ValidPath(f, d[f])

(* reportSchema.pre('save'): stamps updatedAt                             *)
PreSave(d, t) == [d EXCEPT !.updatedAt = t]

(* Model.findByIdAndUpdate(id, update): $set of the given paths only; no   *)
(* save middleware runs                                                    *)
FindByIdAndUpdate(d, update) ==
    [f \in DOMAIN d |-> IF Has(update, f) THEN update[f] ELSE d[f]]

(* runValidators: true validates the updated paths                         *)
ValidUpdate(update) == \A f \in DOMAIN update : ValidPath(f, update[f])

(* ------------------------ middleware (auth, error) --------------------- *)
Protect(user) == user # Anon
(* status the error middleware answers for an error passed to next()       *)
ErrorStatus(name) == IF name = "ValidationError" THEN 400 ELSE 500
Authorize(roles, user) == user.role \in roles

Response(route, code, data) ==
    [route |-> route, code |-> code, data |-> data,
     next |-> <<>>, prev |-> <<>>]

Request(route, user, id, body, query) ==
    [route |-> route, user |-> user, id |-> id, body |-> body,
     query |-> query]

View(store, i) == [id |-> i, doc |-> store[i]]

(* the ownership test with the role comparison inverted                    *)
NotOwnerNorAdmin_RoleInverted(report, user) ==
    report.userId # user.id /\ user.role = "admin"

(* ownership test shared by getReport / updateReport / deleteReport        *)
NotOwnerNorAdmin(report, user) ==
    report.userId # user.id /\ user.role # "admin"

(* ------------------- controllers/reports.js: getReports ---------------- *)
Eq(v) == [op |-> "eq", arg |-> {v}]
In(S) == [op |-> "in", arg |-> S]

RemoveFields == {"select", "sort", "page", "limit"}

(* queryStr.replace(/\b(gt|gte|lt|lte|in)\b/g, ...) acts on the whole JSON *)
(* text: on operator keys and on any value that holds such a word          *)
ReplaceOps(s) ==
    CASE s = "in"          -> "$in"
      [] s = "in-progress" -> "$in-progress"
      [] OTHER             -> s

ParseQueryStr(reqQuery) ==
    [f \in DOMAIN reqQuery |->
        [op  |-> ReplaceOps(reqQuery[f].op),
         arg |-> {ReplaceOps(v) : v \in reqQuery[f].arg}]]

(* the filter document handed to Report.find / Report.countDocuments       *)
ReqQuery(query, user) ==
    LET copied == [f \in (DOMAIN query) \ RemoveFields |-> query[f]]
    IN  ParseQueryStr(
          IF user.role # "admin"
            THEN [f \in (DOMAIN copied) \cup {"userId"} |->
                     IF f = "userId" THEN Eq(user.id) ELSE copied[f]]
            ELSE copied)

Matches(doc, filter) ==
    \A f \in DOMAIN filter :
        /\ filter[f].op \in {"eq", "$in"}
        /\ doc[f] \in filter[f].arg

Find(store, filter) == {i \in DOMAIN store : Matches(store[i], filter)}

(* query.sort('createdAt') / query.sort('-createdAt')                      *)
RECURSIVE SortBy(_, _, _)
SortBy(store, ids, desc) ==
    IF ids = {} THEN <<>>
    ELSE LET first == CHOOSE i \in ids : \A j \in ids :
                         IF desc THEN store[i].createdAt >= store[j].createdAt
                                 ELSE store[i].createdAt <= store[j].createdAt
         IN  <<first>> \o SortBy(store, ids \ {first}, desc)

(* parseInt(x, 10) || dflt                                                 *)
ParseIntOr(query, f, dflt) ==
    IF Has(query, f) /\ query[f] # 0 THEN query[f] ELSE dflt

Min(a, b) == IF a < b THEN a ELSE b

(* query.skip(startIndex).limit(limit)                                     *)
SkipLimit(seq, startIndex, limit) ==
    SubSeq(seq, startIndex + 1, Min(startIndex + limit, Len(seq)))

(* the next-page test with an off-by-one comparison                        *)
HasNext_OffByOne(endIndex, total) == endIndex <= total

HasNext(endIndex, total) == endIndex < total
HasPrev(startIndex) == startIndex > 0

getReports(Qs) ==
    \E user \in Requesters, query \in Qs :
      /\ UNCHANGED authVars
      /\ req' = Request("getReports", user, 0, Empty, query)
      /\ IF ~Protect(user)
           THEN resp' = Response("getReports", 401, <<>>)
           ELSE LET filter == ReqQuery(query, user)
                    desc == ~(Has(query, "sort") /\ query.sort = "createdAt")
                    page == ParseIntOr(query, "page", DefaultPage)
                    limit == ParseIntOr(query, "limit", DefaultLimit)
                    startIndex == (page - 1) * limit
                    endIndex == page * limit
                    found == Find(reports, filter)
                    total == Cardinality(found)
                    ids == SkipLimit(SortBy(reports, found, desc),
                                     startIndex, limit)
                IN  resp' =
                      [Response("getReports", 200,
                                [k \in 1..Len(ids) |-> View(reports, ids[k])])
                         EXCEPT !.next = IF HasNext(endIndex, total)
                                  THEN <<[page |-> page + 1, limit |-> limit]>>
                                  ELSE <<>>,
                                !.prev = IF HasPrev(startIndex)
                                  THEN <<[page |-> page - 1, limit |-> limit]>>
                                  ELSE <<>>]
      /\ UNCHANGED <<reports, nextId, now>>

(* ------------------- controllers/reports.js: getReport ----------------- *)
Ids == 1..MaxReports
(* ids a request can name: every id that may be stored and one that never is *)
AnyId == Ids \cup {MaxReports + 1}

getReport ==
    \E user \in Requesters, id \in AnyId :
      /\ UNCHANGED authVars
      /\ req' = Request("getReport", user, id, Empty, Empty)
      /\ resp' = IF ~Protect(user)
                   THEN Response("getReport", 401, <<>>)
                 ELSE IF id \notin DOMAIN reports
                   THEN Response("getReport", 404, <<>>)
                 ELSE IF NotOwnerNorAdmin(reports[id], user)
                   THEN Response("getReport", 401, <<>>)
                 ELSE Response("getReport", 200, <<View(reports, id)>>)
      /\ UNCHANGED <<reports, nextId, now>>

(* ------------------------- request bodies ------------------------------ *)
(* title / description / location by length: 0 is missing or empty         *)
ValidContent == [title |-> 1, description |-> 1, location |-> 1]

InvalidContents ==
    {[title |-> 0, description |-> 1, location |-> 1],
     [title |-> TitleMaxLen + 1, description |-> 1, location |-> 1],
     [title |-> 1, description |-> 0, location |-> 1],
     [title |-> 1, description |-> DescriptionMaxLen + 1, location |-> 1],
     [title |-> 1, description |-> 1, location |-> 0]}

CreateBodies ==
    {ValidContent @@ u @@ st : u \in Opt("userId", {"u2"}),
                               st \in Opt("status", {"verified"})}
      \cup InvalidContents

UpdateBodies ==
    UNION {Opt("title", {2, TitleMaxLen + 1}),
           Opt("status", {"resolved", "approved"}),
           Opt("verificationStatus", {"approved"}),
           Opt("userId", {"u2"}),
           Opt("updatedAt", {0}),
           Opt("verificationHistory",
               {<<>>, <<[status |-> "approved", adminId |-> "u1"]>>})}

VerifyBodies ==
    {[status |-> "approved", adminId |-> "a1"],
     [status |-> "approved", adminId |-> "u2"],
     [status |-> "rejected", adminId |-> "a1"],
     [status |-> "verified", adminId |-> "a1"]}

(* ------------------ controllers/reports.js: createReport --------------- *)
createReport ==
    \E user \in Requesters, body \in CreateBodies :
      /\ UNCHANGED authVars
      /\ nextId <= MaxReports
      /\ now <= MaxTime
      /\ req' = Request("createReport", user, 0, body, Empty)
      /\ IF ~Protect(user)
           THEN /\ resp' = Response("createReport", 401, <<>>)
                /\ UNCHANGED <<reports, nextId, now>>
           ELSE LET data == ("userId" :> user.id) @@ body
                    doc == PreSave(NewDocument(data, now), now)
                IN  IF ~ValidDocument(doc)
                      THEN /\ resp' = Response("createReport",
                                        ErrorStatus("ValidationError"), <<>>)
                           /\ UNCHANGED <<reports, nextId, now>>
                      ELSE /\ reports' = (nextId :> doc) @@ reports
                           /\ nextId' = nextId + 1
                           /\ now' = now + 1
                           /\ resp' = Response("createReport", 201,
                                               <<[id |-> nextId, doc |-> doc]>>)

(* ------------------ controllers/reports.js: updateReport --------------- *)
updateReport ==
    \E user \in Requesters, id \in AnyId, body \in UpdateBodies :
      /\ UNCHANGED authVars
      /\ now <= MaxTime
      /\ req' = Request("updateReport", user, id, body, Empty)
      /\ IF ~Protect(user)
           THEN /\ resp' = Response("updateReport", 401, <<>>)
                /\ UNCHANGED <<reports, nextId, now>>
         ELSE IF id \notin DOMAIN reports
           THEN /\ resp' = Response("updateReport", 404, <<>>)
                /\ UNCHANGED <<reports, nextId, now>>
         ELSE IF NotOwnerNorAdmin(reports[id], user)
           THEN /\ resp' = Response("updateReport", 401, <<>>)
                /\ UNCHANGED <<reports, nextId, now>>
         ELSE IF ~ValidUpdate(body)
           THEN /\ resp' = Response("updateReport",
                                        ErrorStatus("ValidationError"), <<>>)
                /\ UNCHANGED <<reports, nextId, now>>
         ELSE /\ reports' = [reports EXCEPT
                               ![id] = FindByIdAndUpdate(@, body)]
              /\ now' = now + 1
              /\ resp' = Response("updateReport", 200, <<View(reports', id)>>)
              /\ UNCHANGED nextId

(* ------------------ controllers/reports.js: deleteReport --------------- *)
deleteReport ==
    \E user \in Requesters, id \in AnyId :
      /\ UNCHANGED authVars
      /\ now <= MaxTime
      /\ req' = Request("deleteReport", user, id, Empty, Empty)
      /\ IF ~Protect(user)
           THEN /\ resp' = Response("deleteReport", 401, <<>>)
                /\ UNCHANGED <<reports, nextId, now>>
         ELSE IF id \notin DOMAIN reports
           THEN /\ resp' = Response("deleteReport", 404, <<>>)
                /\ UNCHANGED <<reports, nextId, now>>
         ELSE IF NotOwnerNorAdmin(reports[id], user)
           THEN /\ resp' = Response("deleteReport", 401, <<>>)
                /\ UNCHANGED <<reports, nextId, now>>
         ELSE /\ reports' = [i \in (DOMAIN reports) \ {id} |-> reports[i]]
              /\ now' = now + 1
              /\ resp' = Response("deleteReport", 200, <<>>)
              /\ UNCHANGED nextId

(* ------------------ controllers/reports.js: verifyReport --------------- *)
verifyReport ==
    \E user \in Requesters, id \in AnyId, body \in VerifyBodies :
      /\ UNCHANGED authVars
      /\ now <= MaxTime
      /\ req' = Request("verifyReport", user, id, body, Empty)
      /\ IF ~Protect(user)
           THEN /\ resp' = Response("verifyReport", 401, <<>>)
                /\ UNCHANGED <<reports, nextId, now>>
         ELSE IF ~Authorize({"admin"}, user)
           THEN /\ resp' = Response("verifyReport", 403, <<>>)
                /\ UNCHANGED <<reports, nextId, now>>
         ELSE IF id \notin DOMAIN reports
           THEN /\ resp' = Response("verifyReport", 404, <<>>)
                /\ UNCHANGED <<reports, nextId, now>>
         ELSE LET doc == PreSave([reports[id] EXCEPT
                                    !.status = body.status,
                                    !.verifiedBy = user.id,
                                    !.verifiedAt = now], now)
              IN  IF ~ValidDocument(doc)
                    THEN /\ resp' = Response("verifyReport",
                                        ErrorStatus("ValidationError"), <<>>)
                         /\ UNCHANGED <<reports, nextId, now>>
                    ELSE /\ reports' = [reports EXCEPT ![id] = doc]
                         /\ now' = now + 1
                         /\ resp' = Response("verifyReport", 200,
                                             <<[id |-> id, doc |-> doc]>>)
                         /\ UNCHANGED nextId

(* --------------------- server.js: POST /api/reports -------------------- *)
(* userId: req.body.userId || '655e1234abcd1234abcd1234'                    *)
ReportDataUserId(body) ==
    IF Has(body, "userId") /\ body.userId # "" THEN body.userId
    ELSE DefaultUserId

PostApiReports ==
    \E user \in Requesters, body \in CreateBodies :
      /\ UNCHANGED authVars
      /\ nextId <= MaxReports
      /\ now <= MaxTime
      /\ req' = Request("PostApiReports", user, 0, body, Empty)
      /\ IF body.title = 0 \/ body.description = 0 \/ body.location = 0
           THEN /\ resp' = Response("PostApiReports", 400, <<>>)
                /\ UNCHANGED <<reports, nextId, now>>
           ELSE LET reportData ==
                      [title |-> body.title,
                       description |-> body.description,
                       location |-> body.location,
                       status |-> "pending",
                       userId |-> ReportDataUserId(body),
                       createdAt |-> now, updatedAt |-> now]
                    doc == PreSave(NewDocument(reportData, now), now)
                IN  IF ~ValidDocument(doc)
                      THEN /\ resp' = Response("PostApiReports", 400, <<>>)
                           /\ UNCHANGED <<reports, nextId, now>>
                      ELSE /\ reports' = (nextId :> doc) @@ reports
                           /\ nextId' = nextId + 1
                           /\ now' = now + 1
                           /\ resp' = Response("PostApiReports", 201,
                                               <<[id |-> nextId, doc |-> doc]>>)

(* --------------------- server.js: GET /api/reports --------------------- *)
GetApiReports ==
    \E user \in Requesters :
      /\ UNCHANGED authVars
      /\ req' = Request("GetApiReports", user, 0, Empty, Empty)
      /\ LET ids == SortBy(reports, DOMAIN reports, TRUE)
         IN  resp' = Response("GetApiReports", 200,
                              [k \in 1..Len(ids) |-> View(reports, ids[k])])
      /\ UNCHANGED <<reports, nextId, now>>

(* ------------------- server.js: GET /api/reports/:id ------------------- *)
GetApiReportsId ==
    \E user \in Requesters, id \in AnyId :
      /\ UNCHANGED authVars
      /\ req' = Request("GetApiReportsId", user, id, Empty, Empty)
      /\ resp' = IF id \notin DOMAIN reports
                   THEN Response("GetApiReportsId", 404, <<>>)
                   ELSE Response("GetApiReportsId", 200, <<View(reports, id)>>)
      /\ UNCHANGED <<reports, nextId, now>>

(* ------------- server.js: PUT /api/admin/reports/:id/verify ------------ *)
(* the update document with the status mapping lost                        *)
VerifyUpdate_StatusCopied(body, t) ==
    [status |-> "verified",
     verificationStatus |-> body.status,
     verifiedBy |-> body.adminId,
     verifiedAt |-> t,
     updatedAt |-> t]

VerifyUpdate(body, t) ==
    [status |-> IF body.status = "approved" THEN "verified" ELSE "rejected",
     verificationStatus |-> body.status,
     verifiedBy |-> body.adminId,
     verifiedAt |-> t,
     updatedAt |-> t]

PutApiAdminReportsIdVerify ==
    \E user \in Requesters, id \in AnyId, body \in VerifyBodies :
      /\ UNCHANGED authVars
      /\ now <= MaxTime
      /\ req' = Request("PutApiAdminReportsIdVerify", user, id, body, Empty)
      /\ IF body.status \notin {"approved", "rejected"}
           THEN /\ resp' = Response("PutApiAdminReportsIdVerify", 400, <<>>)
                /\ UNCHANGED <<reports, nextId, now>>
         ELSE IF id \notin DOMAIN reports
           THEN /\ resp' = Response("PutApiAdminReportsIdVerify", 404, <<>>)
                /\ UNCHANGED <<reports, nextId, now>>
         ELSE /\ reports' = [reports EXCEPT ![id] =
                               FindByIdAndUpdate(@, VerifyUpdate(body, now))]
              /\ now' = now + 1
              /\ resp' = Response("PutApiAdminReportsIdVerify", 200,
                                  <<View(reports', id)>>)
              /\ UNCHANGED nextId

(* --------------------------- auth state -------------------------------- *)
MaxClients == 2
MaxUsers == 2

Clients == 1..MaxClients
Idle == [route |-> "idle", body |-> Empty]
NoPending == [c \in Clients |-> Idle]

(* ------------------------------ User ---------------------------------- *)
Emails == {"e1", "e2"}
RegisterRoles == {"user", "admin"}

(* a missing field is the empty string                                     *)
RegisterBodies ==
    {[name |-> "n", email |-> "e1", password |-> "p1", role |-> "user"],
     [name |-> "n", email |-> "e1", password |-> "p2", role |-> "admin"],
     [name |-> "n", email |-> "e2", password |-> "p1", role |-> "admin"]}
      \cup {[name |-> "", email |-> "e1", password |-> "p1", role |-> "user"],
            [name |-> "n", email |-> "e1", password |-> "p1", role |-> ""],
            [name |-> "n", email |-> "e1", password |-> "p1",
             role |-> "government"]}

LoginBodies ==
    [email : Emails, password : {"p1", "p2"}, role : {"", "user", "admin"}]

(* the stored password is a hash of the one supplied                       *)
Hash(p) == <<"hash", p>>
MatchPassword(user, p) == user.password = Hash(p)

NewUser(body, role) ==
    [name |-> body.name, email |-> body.email,
     password |-> Hash(body.password), role |-> role, lastLogin |-> 0]

(* User.findOne({ email })                                                 *)
FindOne(us, email) == {i \in 1..Len(us) : us[i].email = email}

(* the users collection validator                                          *)
UserValid(doc) ==
    /\ doc.name # ""
    /\ doc.email # ""
    /\ doc.role \in {"user", "admin", "government"}

(* User.create: validation first, then the insert, which the unique index  *)
(* on email refuses with error code 11000                                  *)
UserCreateError(us, doc) ==
    IF ~UserValid(doc) THEN "ValidationError"
    ELSE IF FindOne(us, doc.email) # {} THEN "E11000"
    ELSE "none"

Token(us, i) == [token |-> [id |-> i, role |-> us[i].role]]

(* ----------------- controllers/auth.js: register ----------------------- *)
(* up to the existence check and the role check                            *)
registerFindOne ==
    \E c \in Clients, body \in RegisterBodies :
      /\ pending[c] = Idle
      /\ Len(users) < MaxUsers
      /\ IF body.name = "" \/ body.email = "" \/ body.password = ""
              \/ body.role = ""
           THEN /\ req' = Request("register", Anon, 0, body, Empty)
                /\ resp' = Response("register", 400, <<>>)
                /\ UNCHANGED pending
         ELSE IF FindOne(users, body.email) # {}
           THEN /\ req' = Request("register", Anon, 0, body, Empty)
                /\ resp' = Response("register", 400, <<>>)
                /\ UNCHANGED pending
         ELSE IF body.role \notin RegisterRoles
           THEN /\ req' = Request("register", Anon, 0, body, Empty)
                /\ resp' = Response("register", 400, <<>>)
                /\ UNCHANGED pending
         ELSE /\ pending' = [pending EXCEPT
                               ![c] = [route |-> "register", body |-> body]]
              /\ UNCHANGED <<req, resp>>
      /\ UNCHANGED <<reports, nextId, now, users>>

(* User.create, the token and the catch block                              *)
registerCreate ==
    \E c \in Clients :
      /\ pending[c].route = "register"
      /\ LET body == pending[c].body
             doc == NewUser(body, body.role)
             error == UserCreateError(users, doc)
         IN  /\ req' = Request("register", Anon, 0, body, Empty)
             /\ IF error = "none"
                  THEN /\ users' = Append(users, doc)
                       /\ resp' = Response("register", 201,
                                           <<Token(users', Len(users'))>>)
                  ELSE /\ resp' = Response("register",
                                    IF error \in {"ValidationError", "E11000"}
                                      THEN 400 ELSE 500, <<>>)
                       /\ UNCHANGED users
      /\ pending' = [pending EXCEPT ![c] = Idle]
      /\ UNCHANGED <<reports, nextId, now>>

(* ---------------- server.js: POST /api/auth/register ------------------- *)
PostApiAuthRegisterFindOne ==
    \E c \in Clients, body \in RegisterBodies :
      /\ pending[c] = Idle
      /\ Len(users) < MaxUsers
      /\ IF FindOne(users, body.email) # {}
           THEN /\ req' = Request("PostApiAuthRegister", Anon, 0, body, Empty)
                /\ resp' = Response("PostApiAuthRegister", 400, <<>>)
                /\ UNCHANGED pending
           ELSE /\ pending' = [pending EXCEPT ![c] =
                                 [route |-> "PostApiAuthRegister",
                                  body |-> body]]
                /\ UNCHANGED <<req, resp>>
      /\ UNCHANGED <<reports, nextId, now, users>>

PostApiAuthRegisterCreate ==
    \E c \in Clients :
      /\ pending[c].route = "PostApiAuthRegister"
      /\ LET body == pending[c].body
             doc == NewUser(body, IF body.role # "" THEN body.role ELSE "user")
             error == UserCreateError(users, doc)
         IN  /\ req' = Request("PostApiAuthRegister", Anon, 0, body, Empty)
             /\ IF error = "none"
                  THEN /\ users' = Append(users, doc)
                       /\ resp' = Response("PostApiAuthRegister", 201,
                                    <<[id |-> Len(users'), role |-> doc.role]>>)
                  ELSE /\ resp' = Response("PostApiAuthRegister", 500, <<>>)
                       /\ UNCHANGED users
      /\ pending' = [pending EXCEPT ![c] = Idle]
      /\ UNCHANGED <<reports, nextId, now>>

(* ------------------- controllers/auth.js: login ------------------------ *)
login ==
    \E body \in LoginBodies :
      /\ now <= MaxTime
      /\ req' = Request("login", Anon, 0, body, Empty)
      /\ LET found == FindOne(users, body.email)
         IN  IF found = {}
               THEN /\ resp' = Response("login", 401, <<>>)
                    /\ UNCHANGED <<users, now>>
             ELSE LET i == CHOOSE j \in found : \A k \in found : j <= k
                  IN  IF ~MatchPassword(users[i], body.password)
                        THEN /\ resp' = Response("login", 401, <<>>)
                             /\ UNCHANGED <<users, now>>
                      ELSE IF body.role # "" /\ users[i].role # body.role
                        THEN /\ resp' = Response("login", 401, <<>>)
                             /\ UNCHANGED <<users, now>>
                      ELSE /\ users' = [users EXCEPT ![i].lastLogin = now]
                           /\ now' = now + 1
                           /\ resp' = Response("login", 200,
                                               <<Token(users', i)>>)
      /\ UNCHANGED <<reports, nextId, pending>>

(* ------------------ server.js: POST /api/auth/login -------------------- *)
PostApiAuthLogin ==
    \E body \in LoginBodies :
      /\ req' = Request("PostApiAuthLogin", Anon, 0, body, Empty)
      /\ LET found == FindOne(users, body.email)
         IN  IF found = {}
               THEN resp' = Response("PostApiAuthLogin", 401, <<>>)
             ELSE LET i == CHOOSE j \in found : \A k \in found : j <= k
                  IN  IF ~MatchPassword(users[i], body.password)
                        THEN resp' = Response("PostApiAuthLogin", 401, <<>>)
                        ELSE resp' = Response("PostApiAuthLogin", 200,
                                       <<[id |-> i, role |-> users[i].role]>>)
      /\ UNCHANGED <<reports, nextId, now, users, pending>>

(* ------------------------- specification ------------------------------- *)
Queries ==
    UNION {Opt("userId", {Eq("u2"), In({"u1", "u2"})}),
           Opt("status", {Eq("in-progress")}),
           Opt("sort", {"createdAt"}),
           {("page" :> 2) @@ ("limit" :> 1)}}

Init ==
    /\ reports = <<>>
    /\ nextId = 1
    /\ now = 1
    /\ req = Request("none", Anon, 0, Empty, Empty)
    /\ resp = Response("none", 0, <<>>)
    /\ users = <<>>
    /\ pending = NoPending

Next ==
    \/ getReports(Queries)
    \/ getReport
    \/ createReport
    \/ updateReport
    \/ deleteReport
    \/ verifyReport
    \/ PostApiReports
    \/ GetApiReports
    \/ GetApiReportsId
    \/ PutApiAdminReportsIdVerify

Spec == Init /\ [][Next]_vars

(* A collection of n reports of one owner, listed with the whole range of  *)
(* page and limit parameters.                                              *)
PageQueries ==
    {pg @@ lm : pg \in Opt("page", {0, 1, 2, 3}),
                lm \in Opt("limit", {0, 1, 5, 10})}

PageDocument(i) ==
    [SchemaDefaults(i) EXCEPT !.title = 1, !.description = 1,
                              !.location = 1, !.userId = "u1"]

InitPage ==
    /\ \E n \in 0..MaxPageReports :
         /\ reports = [i \in 1..n |-> PageDocument(i)]
         /\ nextId = n + 1
         /\ now = n + 1
    /\ req = Request("none", Anon, 0, Empty, Empty)
    /\ resp = Response("none", 0, <<>>)
    /\ users = <<>>
    /\ pending = NoPending

NextPage == getReports(PageQueries)

SpecPage == InitPage /\ [][NextPage]_vars

(* =========================== properties ================================ *)
ListRoutes == {"getReports", "GetApiReports"}
GetRoutes == {"getReport", "GetApiReportsId"}
CreateRoutes == {"createReport", "PostApiReports"}
VerifyRoutes == {"verifyReport", "PutApiAdminReportsIdVerify"}
MutateRoutes == {"updateReport"} \cup VerifyRoutes

Max(a, b) == IF a > b THEN a ELSE b
IsPrefix(h, g) == Len(h) <= Len(g) /\ SubSeq(g, 1, Len(h)) = h

(* C1: every report that a list request returns to a requester whose role *)
(* is not admin is owned by that requester, whatever the query; an admin   *)
(* listing without filters receives the reports of all owners.             *)
C1_ListOnlyOwnReports ==
    (resp.route \in ListRoutes /\ resp.code = 200) =>
      /\ req.user.role # "admin" =>
           \A k \in 1..Len(resp.data) : resp.data[k].doc.userId = req.user.id
      /\ (req.user.role = "admin" /\ req.query = Empty
            /\ Cardinality(DOMAIN reports) <= DefaultLimit) =>
           {resp.data[k].id : k \in 1..Len(resp.data)} = DOMAIN reports

(* C2: a get on an id that is not stored answers 404; a get on a stored    *)
(* report by a requester who is neither its owner nor an admin answers an  *)
(* authorization error and returns no report; a report is returned only    *)
(* to its owner or to an admin.                                            *)
C2_GetChecksOwnership ==
    resp.route \in GetRoutes =>
      /\ (req.user # Anon /\ req.id \notin DOMAIN reports) => resp.code = 404
      /\ (req.id \in DOMAIN reports
            /\ reports[req.id].userId # req.user.id
            /\ req.user.role # "admin") =>
           (resp.code \in {401, 403} /\ resp.data = <<>>)
      /\ resp.code = 200 =>
           (reports[req.id].userId = req.user.id \/ req.user.role = "admin")

(* C3: an update or delete of a stored report by an authenticated          *)
(* requester who is neither its owner nor an admin answers 401 and leaves  *)
(* the whole collection unchanged; an update or delete of an id that is    *)
(* not stored answers 404 and leaves the collection unchanged.             *)
C3_RejectedMutationChangesNothing ==
    [][(req'.route \in {"updateReport", "deleteReport"} /\ req'.user # Anon) =>
         /\ (req'.id \in DOMAIN reports
               /\ reports[req'.id].userId # req'.user.id
               /\ req'.user.role # "admin") =>
              (resp'.code = 401 /\ reports' = reports)
         /\ req'.id \notin DOMAIN reports =>
              (resp'.code = 404 /\ reports' = reports)]_vars

C3_Witness ==
    /\ resp.route = "updateReport"
    /\ resp.code = 401
    /\ req.user.role = "user"
    /\ req.id \in DOMAIN reports
    /\ reports[req.id].userId # req.user.id
    /\ Has(req.body, "userId")

(* C4: the report stored by a successful create is owned by the requester  *)
(* who issued the create, whatever userId the request data carries.        *)
C4_CreateForcesOwner ==
    (resp.route \in CreateRoutes /\ resp.code = 201) =>
      /\ resp.data[1].doc.userId = req.user.id
      /\ reports[resp.data[1].id].userId = req.user.id

(* C5: a successful verify with "approved" leaves the report with status   *)
(* "verified", verificationStatus "approved" and its verificationHistory   *)
(* extended by exactly one entry; with "rejected", status "rejected",      *)
(* verificationStatus "rejected" and one more history entry.               *)
C5_VerifySetsStatusAndAppends ==
    [][(req'.route \in VerifyRoutes /\ resp'.code = 200
          /\ req'.body.status \in {"approved", "rejected"}) =>
         LET before == reports[req'.id]
             after == reports'[req'.id]
         IN  /\ after.status = IF req'.body.status = "approved"
                                 THEN "verified" ELSE "rejected"
             /\ after.verificationStatus = req'.body.status
             /\ Len(after.verificationHistory) =
                  Len(before.verificationHistory) + 1
             /\ IsPrefix(before.verificationHistory,
                         after.verificationHistory)]_vars

(* C6: a verify request by a requester who is not an authenticated admin   *)
(* is rejected and changes no report's status, verificationStatus,         *)
(* verifiedBy, verifiedAt or verificationHistory.                          *)
C6_VerifyIsAdminOnly ==
    [][(req'.route \in VerifyRoutes /\ req'.user.role # "admin") =>
         /\ resp'.code # 200
         /\ DOMAIN reports' = DOMAIN reports
         /\ \A i \in DOMAIN reports :
              /\ reports'[i].status = reports[i].status
              /\ reports'[i].verificationStatus = reports[i].verificationStatus
              /\ reports'[i].verifiedBy = reports[i].verifiedBy
              /\ reports'[i].verifiedAt = reports[i].verifiedAt
              /\ reports'[i].verificationHistory =
                   reports[i].verificationHistory]_vars

(* C7: after a successful verify the report's verifiedBy is the id of the  *)
(* requester who issued it and verifiedAt is the time of that verify.      *)
C7_VerifiedByIsRequester ==
    [][(req'.route \in VerifyRoutes /\ resp'.code = 200) =>
         /\ reports'[req'.id].verifiedBy = req'.user.id
         /\ reports'[req'.id].verifiedAt = now]_vars

(* C8: no request changes the userId of a stored report.                   *)
C8_UserIdImmutable ==
    [][\A i \in (DOMAIN reports) \cap (DOMAIN reports') :
         reports'[i].userId = reports[i].userId]_vars

(* C9: every successful update or verify sets the report's updatedAt to    *)
(* the time of the request, strictly later than its previous updatedAt.    *)
C9_UpdatedAtAdvances ==
    [][(req'.route \in MutateRoutes /\ resp'.code = 200) =>
         /\ reports'[req'.id].updatedAt = now
         /\ reports'[req'.id].updatedAt > reports[req'.id].updatedAt]_vars

(* C10: a list with page p >= 1 and limit l >= 1 over n visible reports    *)
(* returns min(l, max(0, n - (p-1)*l)) reports, a next entry (p+1, l)      *)
(* exactly when p*l < n and a prev entry (p-1, l) exactly when p > 1.      *)
C10_Pagination ==
    (/\ resp.route = "getReports"
     /\ resp.code = 200
     /\ DOMAIN req.query = {"page", "limit"}
     /\ req.query.page >= 1
     /\ req.query.limit >= 1) =>
      LET p == req.query.page
          l == req.query.limit
          n == Cardinality({i \in DOMAIN reports :
                              \/ req.user.role = "admin"
                              \/ reports[i].userId = req.user.id})
      IN  /\ Len(resp.data) = Min(l, Max(0, n - (p - 1) * l))
          /\ resp.next = IF p * l < n
                           THEN <<[page |-> p + 1, limit |-> l]>> ELSE <<>>
          /\ resp.prev = IF p > 1
                           THEN <<[page |-> p - 1, limit |-> l]>> ELSE <<>>

C10_Witness ==
    /\ resp.route = "getReports"
    /\ resp.code = 200
    /\ Cardinality(DOMAIN reports) = 15
    /\ DOMAIN req.query = {"page", "limit"}
    /\ req.query.page = 2
    /\ req.query.limit = 10
    /\ Len(resp.data) = 5
    /\ resp.prev = <<[page |-> 1, limit |-> 10]>>
    /\ resp.next = <<>>

NextRegister ==
    \/ registerFindOne
    \/ registerCreate
    \/ PostApiAuthRegisterFindOne
    \/ PostApiAuthRegisterCreate

SpecRegister == Init /\ [][NextRegister]_vars

(* login against a collection of registered users                          *)
UserStores ==
    {<<>>}
      \cup {<<NewUser(b, b.role)>> : b \in RegisterBodies \cap
                                            [name : {"n"}, email : Emails,
                                             password : {"p1", "p2"},
                                             role : RegisterRoles]}
      \cup {<<NewUser([name |-> "n", email |-> "e1", password |-> "p1",
                       role |-> "user"], "user"),
              NewUser([name |-> "n", email |-> "e2", password |-> "p1",
                       role |-> "admin"], "admin")>>}

InitLogin ==
    /\ reports = <<>>
    /\ nextId = 1
    /\ now = 1
    /\ req = Request("none", Anon, 0, Empty, Empty)
    /\ resp = Response("none", 0, <<>>)
    /\ users \in UserStores
    /\ pending = NoPending

NextLogin ==
    \/ login
    \/ PostApiAuthLogin

SpecLogin == InitLogin /\ [][NextLogin]_vars

RegisterRoutes == {"register", "PostApiAuthRegister"}
LoginRoutes == {"login", "PostApiAuthLogin"}

(* a step that answers a request, not one that only passes the check       *)
Answers == \A c \in Clients : pending[c] = Idle => pending'[c] = Idle

(* C12: under any interleaving of register requests, a request whose email *)
(* belongs to a stored user when it is answered gets 400 and creates no    *)
(* user, and no two stored users ever hold the same email.                 *)
C12_DuplicateRegisterRejected ==
    [][/\ (Answers /\ req'.route \in RegisterRoutes
             /\ \E i \in 1..Len(users) : users[i].email = req'.body.email) =>
            (resp'.code = 400 /\ users' = users)
       /\ \A i, j \in 1..Len(users') :
            users'[i].email = users'[j].email => i = j]_vars

HasToken(r) == Len(r.data) = 1 /\ "token" \in DOMAIN r.data[1]

(* C13: a login answers 401, issues no token and leaves the users          *)
(* unchanged when no user has the email, the password does not match, or   *)
(* a supplied role differs from the stored one; otherwise it sets the      *)
(* user's lastLogin to the time of the login and returns a token with the  *)
(* user's id and role.                                                     *)
C13_LoginOutcome ==
    [][req'.route \in LoginRoutes =>
         LET b == req'.body
             found == {i \in 1..Len(users) : users[i].email = b.email}
         IN  IF \/ found = {}
                \/ \E i \in found :
                     \/ users[i].password # Hash(b.password)
                     \/ (b.role # "" /\ users[i].role # b.role)
               THEN /\ resp'.code = 401
                    /\ ~HasToken(resp')
                    /\ users' = users
               ELSE \E i \in found :
                      /\ resp'.code = 200
                      /\ users'[i].lastLogin = now
                      /\ HasToken(resp')
                      /\ resp'.data[1].token =
                           [id |-> i, role |-> users[i].role]]_vars

(* C14: in every reachable state each stored report has correlated status  *)
(* and verificationStatus: approved implies verified, rejected implies     *)
(* rejected, and verified implies approved.                                *)
C14_StatusCorrelated ==
    \A i \in DOMAIN reports :
      /\ reports[i].verificationStatus = "approved" =>
           reports[i].status = "verified"
      /\ reports[i].verificationStatus = "rejected" =>
           reports[i].status = "rejected"
      /\ reports[i].status = "verified" =>
           reports[i].verificationStatus = "approved"

(* C14 (amended): right after a successful verify on the route             *)
(* PUT /api/admin/reports/:id/verify the report has either status          *)
(* "verified" with verificationStatus "approved" or status "rejected"      *)
(* with verificationStatus "rejected".                                     *)
C14_AdminVerifyCorrelates ==
    [][(req'.route = "PutApiAdminReportsIdVerify" /\ resp'.code = 200) =>
         <<reports'[req'.id].status, reports'[req'.id].verificationStatus>>
           \in {<<"verified", "approved">>, <<"rejected", "rejected">>}]_vars

C14_Witness ==
    /\ resp.route = "PutApiAdminReportsIdVerify"
    /\ resp.code = 200
    /\ req.body.status = "rejected"
    /\ reports[req.id].status = "rejected"
    /\ reports[req.id].verificationStatus = "rejected"

(* C15: across every operation on a stored report its verificationHistory  *)
(* only grows at the end, and only a verify adds an entry.                 *)
C15_HistoryAppendOnly ==
    [][\A i \in (DOMAIN reports) \cap (DOMAIN reports') :
         /\ IsPrefix(reports[i].verificationHistory,
                     reports'[i].verificationHistory)
         /\ reports'[i].verificationHistory # reports[i].verificationHistory
              => req'.route \in VerifyRoutes]_vars

====
